---- MODULE Spec2Model ----
(***************************************************************************)
(* Inventory REST service: the record store (table "inventory"), the       *)
(* Inventory entity (service/models.py) and the request handlers           *)
(* (service/routes.py).  One action per HTTP handler; a handler runs in    *)
(* its own request-scoped session, so whatever it changed on an entity and *)
(* did not commit is gone when the request ends.                           *)
(***************************************************************************)
EXTENDS Integers, Sequences, FiniteSets, TLC

VARIABLES db,       \* the table: id -> row, for the ids that exist
          next_id,  \* next value of the primary-key sequence
          resp,     \* the last response: handler, path id, status, body
          hist,     \* per existing id: quantity at the last create/update and
                    \* the number of restocks since
          list_args, \* the parsed query string of the list request being served
                     \* (None when the request is not a list)
          ent,      \* an Inventory object the methods are called on directly
          out,      \* the last such call: method, entity before it, outcome
          posts     \* per worker: the request it is in the middle of (a POST
                    \* between the duplicate lookup and item.create(), a
                    \* restock between Inventory.find and item.update())

vars == <<db, next_id, resp, hist, list_args, ent, out, posts>>

\* What a request handler that runs in one step leaves alone.
outside == <<list_args, ent, out, posts>>

----------------------------------------------------------------------------
(* Bounds *)

\* Largest primary key the sequence hands out.
MaxId == 2
\* Largest value an Integer column holds (the store refuses anything above);
\* the column is taken 16 bits wide, which holds the values the source writes.
MaxInt == 32767

----------------------------------------------------------------------------
(* Values *)

\* Optional values: None is <<>>, a present value v is <<v>>.
None == <<>>
Some(v) == <<v>>

HTTP_200_OK == 200
HTTP_201_CREATED == 201
HTTP_204_NO_CONTENT == 204
HTTP_400_BAD_REQUEST == 400
HTTP_404_NOT_FOUND == 404
HTTP_409_CONFLICT == 409
HTTP_415_UNSUPPORTED_MEDIA_TYPE == 415
HTTP_500_INTERNAL_SERVER_ERROR == 500

\* class Condition(Enum)
Condition ==
  { [name |-> "NEW", value |-> 1],
    [name |-> "USED", value |-> 2],
    [name |-> "OPEN_BOX", value |-> 3] }

\* What getattr(Condition, "__doc__") returns: an attribute of the class that
\* is not one of its members.
ClassDoc == [name |-> "__doc__", value |-> 0]

\* A str.upper() that leaves the string as it is.
Upper_Identity(s) == s

\* str.upper() on the condition names the model uses.
Upper(s) ==
  CASE s = "new" -> "NEW"
    [] s = "used" -> "USED"
    [] s = "Open_Box" -> "OPEN_BOX"
    [] s = "bogus" -> "BOGUS"
    [] s = "__doc__" -> "__DOC__"
    [] OTHER -> s

\* getattr with a default: an unknown name falls back to NEW.
GetAttrCondition_Default(name) ==
  IF \E c \in Condition : c.name = name
    THEN [ok |-> TRUE, val |-> CHOOSE c \in Condition : c.name = name]
    ELSE [ok |-> TRUE, val |-> CHOOSE c \in Condition : c.name = "NEW"]

\* getattr(Condition, name): a member, another attribute of the class, or
\* AttributeError (ok = FALSE).
GetAttrCondition(name) ==
  IF \E c \in Condition : c.name = name
    THEN [ok |-> TRUE, val |-> CHOOSE c \in Condition : c.name = name]
    ELSE IF name = "__doc__"
      THEN [ok |-> TRUE, val |-> ClassDoc]
      ELSE [ok |-> FALSE, val |-> ClassDoc]

\* A lookup that answers NEW for a name the enumeration does not have.
ConditionByName_Default(name) ==
  [ok |-> TRUE, val |-> IF \E c \in Condition : c.name = name
                          THEN CHOOSE c \in Condition : c.name = name
                          ELSE CHOOSE c \in Condition : c.name = "NEW"]

\* Condition[name]: a member or KeyError (ok = FALSE).
ConditionByName(name) ==
  IF \E c \in Condition : c.name = name
    THEN [ok |-> TRUE, val |-> CHOOSE c \in Condition : c.name = name]
    ELSE [ok |-> FALSE, val |-> ClassDoc]

----------------------------------------------------------------------------
(* Entity *)

\* Inventory(): a fresh entity, no attribute set.
NewEntity ==
  [id |-> None, product_id |-> None, quantity |-> None, restock_level |-> None,
   restock_amount |-> None, condition |-> None, description |-> None]

\* The entity the session loads for row r stored under id i.
Load(i, r) ==
  [id |-> Some(i), product_id |-> Some(r.product_id), quantity |-> Some(r.quantity),
   restock_level |-> Some(r.restock_level), restock_amount |-> Some(r.restock_amount),
   condition |-> Some(r.condition), description |-> r.description]

\* The row an entity is written as.
RowOf(e) ==
  [product_id |-> e.product_id[1], quantity |-> e.quantity[1],
   restock_level |-> e.restock_level[1], restock_amount |-> e.restock_amount[1],
   condition |-> e.condition[1], description |-> e.description]

\* serialize that leaves the description out.
serialize_NoDescription(e) ==
  [id |-> e.id, product_id |-> e.product_id[1], quantity |-> e.quantity[1],
   restock_level |-> e.restock_level[1], restock_amount |-> e.restock_amount[1],
   condition |-> e.condition[1].name, description |-> None]

\* Inventory.serialize, for an entity whose condition has a name.  The id is
\* the attribute as the entity holds it (null before the insert); the
\* description likewise.
serialize(e) ==
  [id |-> e.id, product_id |-> e.product_id[1], quantity |-> e.quantity[1],
   restock_level |-> e.restock_level[1], restock_amount |-> e.restock_amount[1],
   condition |-> e.condition[1].name, description |-> e.description]

----------------------------------------------------------------------------
(* Request bodies *)

\* A request body: its content type (is_json), whether the parsed JSON is an
\* object (is_mapping) and, if it is, the object (data: key -> value).
MappingBody(d) == [is_json |-> TRUE, is_mapping |-> TRUE, data |-> d]
\* A JSON document that is not an object, e.g. a bare string.
StringBody == [is_json |-> TRUE, is_mapping |-> FALSE, data |-> <<>>]
\* A body sent as text/plain.
TextBody == [is_json |-> FALSE, is_mapping |-> FALSE, data |-> <<>>]

Without(d, key) == [k \in DOMAIN d \ {key} |-> d[k]]
With(d, key, v) == [k \in DOMAIN d \cup {key} |-> IF k = key THEN v ELSE d[k]]

\* The keys read in the opposite order.
IntKeys_Reversed == <<"restock_amount", "restock_level", "quantity", "product_id">>

\* The keys deserialize reads with data[key], in the order it reads them.
IntKeys == <<"product_id", "quantity", "restock_level", "restock_amount">>

\* Objects that deserialize and the store accept.  The first has a quantity
\* two restocks below the column's limit.  The second carries an id
\* of its own, which no handler reads.  A description is a JSON value: null
\* (None) or a string (Some of its characters).
ValidData ==
  { [product_id |-> 1, quantity |-> MaxInt - 2, restock_level |-> 2, restock_amount |-> 1,
     condition |-> "NEW"],
    [product_id |-> 2, quantity |-> 0, restock_level |-> 0, restock_amount |-> 0,
     condition |-> "USED", description |-> Some(<<"a">>), id |-> MaxId] }

BaseData ==
  [product_id |-> 1, quantity |-> MaxInt - 2, restock_level |-> 2, restock_amount |-> 1,
   condition |-> "NEW"]

\* Objects that deserialize or update reject (a key missing, two keys
\* missing, a condition the enumeration does not have), and one whose
\* condition only POST accepts.
OddData ==
  { Without(BaseData, k) : k \in {"product_id", "restock_amount", "condition"} }
  \cup { Without(Without(BaseData, "quantity"), "restock_amount"),
         Without(Without(BaseData, "restock_level"), "condition") }
  \cup { With(BaseData, "condition", c) : c \in {"SOLD", "new", "__doc__"} }

ValidBodies == { MappingBody(d) : d \in ValidData }
JsonBodies == ValidBodies \cup { MappingBody(d) : d \in OddData } \cup {StringBody}
Bodies == JsonBodies \cup {TextBody}

----------------------------------------------------------------------------
(* Inventory.deserialize *)

Min(S) == CHOOSE x \in S : \A y \in S : x <= y

\* e after the first n assignments of deserialize.
AssignInts(e, d, n) ==
  LET Assigned(k) == IF \E i \in 1..n : IntKeys[i] = k THEN Some(d[k]) ELSE e[k]
  IN  [id |-> e.id,
       product_id |-> Assigned("product_id"),
       quantity |-> Assigned("quantity"),
       restock_level |-> Assigned("restock_level"),
       restock_amount |-> Assigned("restock_amount"),
       condition |-> e.condition,
       description |-> e.description]

\* deserialize that looks the condition up only when the object has the key.
deserialize_OptionalCondition(e, body) ==
  IF ~body.is_mapping
    THEN [ok |-> FALSE, error |-> "Invalid Inventory: body of request contained bad or no data", item |-> e]
    ELSE
      LET d == body.data
          missing == {i \in 1..4 : IntKeys[i] \notin DOMAIN d}
          e4 == AssignInts(e, d, 4)
          descr == IF "description" \in DOMAIN d THEN d.description ELSE None
      IN  IF missing # {}
            THEN [ok |-> FALSE, error |-> "Invalid Inventory: missing " \o IntKeys[Min(missing)],
                  item |-> AssignInts(e, d, Min(missing) - 1)]
            ELSE IF "condition" \notin DOMAIN d
              THEN [ok |-> TRUE, error |-> "", item |-> [e4 EXCEPT !.description = descr]]
              ELSE IF ~GetAttrCondition(d.condition).ok
                THEN [ok |-> FALSE, error |-> "Invalid attribute: " \o d.condition, item |-> e4]
                ELSE [ok |-> TRUE, error |-> "",
                      item |-> [e4 EXCEPT !.condition = Some(GetAttrCondition(d.condition).val),
                                          !.description = descr]]

\* deserialize(data) on entity e.  ok = FALSE stands for DataValidationError;
\* error is its message; item is the entity as the call leaves it.
deserialize(e, body) ==
  IF ~body.is_mapping
    THEN [ok |-> FALSE, error |-> "Invalid Inventory: body of request contained bad or no data", item |-> e]
    ELSE
      LET d == body.data
          missing == {i \in 1..4 : IntKeys[i] \notin DOMAIN d}
      IN  IF missing # {}
            THEN [ok |-> FALSE, error |-> "Invalid Inventory: missing " \o IntKeys[Min(missing)],
                  item |-> AssignInts(e, d, Min(missing) - 1)]
            ELSE
              LET e4 == AssignInts(e, d, 4)
              IN  IF "condition" \notin DOMAIN d
                    THEN [ok |-> FALSE, error |-> "Invalid Inventory: missing condition", item |-> e4]
                    ELSE
                      LET g == GetAttrCondition(d.condition)
                      IN  IF ~g.ok
                            THEN [ok |-> FALSE, error |-> "Invalid attribute: " \o d.condition,
                                  item |-> e4]
                            ELSE [ok |-> TRUE, error |-> "",
                                  item |-> [e4 EXCEPT
                                    !.condition = Some(g.val),
                                    !.description =
                                      IF "description" \in DOMAIN d
                                        THEN d.description ELSE None]]

----------------------------------------------------------------------------
(* The store *)

\* The table accepts a row: Integer columns in range, condition a member of
\* the Enum column's type.
StoreAccepts(e) ==
  /\ \A k \in {"product_id", "quantity", "restock_level", "restock_amount"} :
       e[k] # None /\ e[k][1] \in (0 - MaxInt - 1)..MaxInt
  /\ e.condition # None /\ e.condition[1] \in Condition

\* A lookup that ignores the id and returns the first row.
find_First(by_id) ==
  IF DOMAIN db # {}
    THEN LET k == CHOOSE x \in DOMAIN db : \A y \in DOMAIN db : x <= y
         IN  Some(Load(k, db[k]))
    ELSE None

\* Inventory.find
find(by_id) == IF by_id \in DOMAIN db THEN Some(Load(by_id, db[by_id])) ELSE None

\* The table after rows - {i} plus row r under j.
Put1(rows, i, j, r) == [k \in (DOMAIN rows \ {i}) \cup {j} |-> IF k = j THEN r ELSE rows[k]]
Drop(rows, i) == [k \in DOMAIN rows \ {i} |-> rows[k]]

\* A response: the handler, the id of the path (of the new record for a 201),
\* the status, the message of an error response, the records of the body.
Response(op, i, status, message, body) ==
  [op |-> op, id |-> i, status |-> status, message |-> message, body |-> body]

NotFound == "was not found"

----------------------------------------------------------------------------
(* Inventory.create / update / delete.  fails: the store fails while it     *)
(* commits (connection lost, ...).  ok = FALSE stands for the                *)
(* DataValidationError raised after db.session.rollback(); rows is the      *)
(* table as the call leaves it.                                             *)

\* What str(e) of an exception of the store reads in the model.
StoreError == "store error"

\* create on a table that declares product_id unique.
create_Unique(e, fails) ==
  IF fails \/ ~StoreAccepts(e) \/ (\E i \in DOMAIN db : Some(db[i].product_id) = e.product_id)
    THEN [ok |-> FALSE, error |-> StoreError, rows |-> db, item |-> [e EXCEPT !.id = None]]
    ELSE [ok |-> TRUE, error |-> "", rows |-> Put1(db, next_id, next_id, RowOf(e)),
          item |-> [e EXCEPT !.id = Some(next_id)]]

\* create that takes the smallest id no record has, a deleted one included.
create_Reuse(e, fails) ==
  LET free == CHOOSE k \in 1..next_id : k \notin DOMAIN db /\
                                         \A j \in 1..(k - 1) : j \in DOMAIN db
  IN  IF fails \/ ~StoreAccepts(e)
        THEN [ok |-> FALSE, error |-> StoreError, rows |-> db, item |-> e]
        ELSE [ok |-> TRUE, error |-> "", rows |-> Put1(db, free, free, RowOf(e)),
              item |-> [e EXCEPT !.id = Some(free)]]

\* create that stores every record under id 1, whatever the sequence says.
create_FirstId(e, fails) ==
  IF fails \/ ~StoreAccepts(e)
    THEN [ok |-> FALSE, error |-> StoreError, rows |-> db, item |-> e]
    ELSE [ok |-> TRUE, error |-> "", rows |-> Put1(db, 1, 1, RowOf(e)),
          item |-> [e EXCEPT !.id = Some(1)]]

create(e, fails) ==
  LET item == [e EXCEPT !.id = None]
  IN  IF fails \/ ~StoreAccepts(item)
        THEN [ok |-> FALSE, error |-> StoreError, rows |-> db, item |-> item]
        ELSE [ok |-> TRUE, error |-> "", rows |-> Put1(db, next_id, next_id, RowOf(item)),
              item |-> [item EXCEPT !.id = Some(next_id)]]

\* update that commits first and validates the condition afterwards.
update_CommitFirst(e, key, fails) ==
  IF e.id = None
    THEN [ok |-> FALSE, error |-> "Update called with empty ID", rows |-> db, item |-> e]
    ELSE IF fails \/ (e.id[1] # key /\ e.id[1] \in DOMAIN db)
      THEN [ok |-> FALSE, error |-> StoreError, rows |-> db, item |-> e]
      ELSE IF e.condition = None \/ e.condition[1] \notin Condition
        THEN [ok |-> FALSE, error |-> "Invalid condition",
              rows |-> Put1(db, key, e.id[1], RowOf(e)), item |-> e]
        ELSE [ok |-> TRUE, error |-> "", rows |-> Put1(db, key, e.id[1], RowOf(e)),
              item |-> e]

\* update on a table that declares product_id unique.
update_Unique(e, key, fails) ==
  IF e.id = None
    THEN [ok |-> FALSE, error |-> "Update called with empty ID", rows |-> db, item |-> e]
    ELSE IF e.condition = None \/ e.condition[1] \notin Condition
      THEN [ok |-> FALSE, error |-> "Invalid condition", rows |-> db, item |-> e]
      ELSE IF \/ fails \/ ~StoreAccepts(e) \/ (e.id[1] # key /\ e.id[1] \in DOMAIN db)
              \/ \E j \in DOMAIN db \ {key} : Some(db[j].product_id) = e.product_id
        THEN [ok |-> FALSE, error |-> StoreError, rows |-> db, item |-> e]
        ELSE [ok |-> TRUE, error |-> "", rows |-> Put1(db, key, e.id[1], RowOf(e)),
              item |-> e]

\* update that writes every column but the description.
update_KeepDescription(e, key, fails) ==
  IF e.id = None
    THEN [ok |-> FALSE, error |-> "Update called with empty ID", rows |-> db, item |-> e]
    ELSE IF e.condition = None \/ e.condition[1] \notin Condition
      THEN [ok |-> FALSE, error |-> "Invalid condition", rows |-> db, item |-> e]
      ELSE IF fails \/ ~StoreAccepts(e) \/ (e.id[1] # key /\ e.id[1] \in DOMAIN db)
        THEN [ok |-> FALSE, error |-> StoreError, rows |-> db, item |-> e]
        ELSE [ok |-> TRUE, error |-> "",
              rows |-> Put1(db, key, e.id[1],
                            [RowOf(e) EXCEPT !.description = db[key].description]),
              item |-> e]

\* update without the isinstance check, on a column that takes any value.
update_Unchecked(e, key, fails) ==
  IF e.id = None
    THEN [ok |-> FALSE, error |-> "Update called with empty ID", rows |-> db, item |-> e]
    ELSE IF fails \/ (e.id[1] # key /\ e.id[1] \in DOMAIN db)
      THEN [ok |-> FALSE, error |-> StoreError, rows |-> db, item |-> e]
      ELSE [ok |-> TRUE, error |-> "", rows |-> Put1(db, key, e.id[1], RowOf(e)),
            item |-> e]

\* key is the primary key the session loaded e under.
update(e, key, fails) ==
  IF e.id = None
    THEN [ok |-> FALSE, error |-> "Update called with empty ID", rows |-> db, item |-> e]
    ELSE IF e.condition = None \/ e.condition[1] \notin Condition
      THEN [ok |-> FALSE, error |-> "Invalid condition", rows |-> db, item |-> e]
      ELSE IF fails \/ ~StoreAccepts(e) \/ (e.id[1] # key /\ e.id[1] \in DOMAIN db)
        THEN [ok |-> FALSE, error |-> StoreError, rows |-> db, item |-> e]
        ELSE [ok |-> TRUE, error |-> "", rows |-> Put1(db, key, e.id[1], RowOf(e)),
              item |-> e]

\* delete whose failed commit is not rolled back.
delete_NoRollback(e, fails) ==
  [ok |-> ~fails, error |-> IF fails THEN StoreError ELSE "",
   rows |-> Drop(db, e.id[1]), item |-> e]

\* delete that never removes the row.
delete_NoRemove(e, fails) ==
  [ok |-> ~fails, error |-> IF fails THEN StoreError ELSE "", rows |-> db, item |-> e]

delete(e, fails) ==
  IF fails
    THEN [ok |-> FALSE, error |-> StoreError, rows |-> db, item |-> e]
    ELSE [ok |-> TRUE, error |-> "", rows |-> Drop(db, e.id[1]), item |-> e]

----------------------------------------------------------------------------
(* History kept for the restock arithmetic: for each existing record the   *)
(* quantity its last create or update stored (orig) and the number of       *)
(* restocks answered 200 since (n), counted for the records whose           *)
(* restock_amount is positive.                                              *)

HistStart(q) == [orig |-> q, n |-> 0]
HistSet(h, i, q) == [k \in DOMAIN h \cup {i} |-> IF k = i THEN HistStart(q) ELSE h[k]]
HistMove(h, i, j, q) == [k \in (DOMAIN h \ {i}) \cup {j} |-> IF k = j THEN HistStart(q) ELSE h[k]]
HistRestock(h, i, amount) == IF amount > 0 THEN [h EXCEPT ![i].n = @ + 1] ELSE h

----------------------------------------------------------------------------
(* Handlers *)

\* routes.py: InventoryCollection.post
PostData(body) ==
  IF body.is_mapping /\ "condition" \in DOMAIN body.data
    THEN [body EXCEPT !.data = With(body.data, "condition", Upper(body.data.condition))]
    ELSE body

\* The lookup filtering on the primary key instead of product_id.
ExistingProduct_ById(item) == \E i \in DOMAIN db : Some(i) = item.id

\* Inventory.query.filter_by(product_id=...).first() finds a row
ExistingProduct(item) == \E i \in DOMAIN db : Some(db[i].product_id) = item.product_id

\* routes.py: item.create() and the 201 of InventoryCollection.post
PostCreate(e, fails) ==
  /\ next_id <= MaxId
  /\ LET c == create(e, fails)
     IN  IF c.ok
           THEN /\ db' = c.rows
                /\ next_id' = next_id + 1
                /\ hist' = HistSet(hist, c.item.id[1], c.item.quantity[1])
                /\ resp' = Response("POST", c.item.id[1], HTTP_201_CREATED, "",
                                    {serialize(c.item)})
           ELSE /\ db' = c.rows
                /\ resp' = Response("POST", 0, HTTP_400_BAD_REQUEST, c.error, {})
                /\ UNCHANGED <<next_id, hist>>

\* routes.py: InventoryCollection.post, the request served in one step
Post(body, fails) ==
  LET r == deserialize(NewEntity, PostData(body))
  IN  IF ~r.ok
        THEN /\ resp' = Response("POST", 0, HTTP_400_BAD_REQUEST, r.error, {})
             /\ UNCHANGED <<db, next_id, hist>>
        ELSE IF ExistingProduct(r.item)
          THEN /\ resp' = Response("POST", 0, HTTP_409_CONFLICT, "already exists", {})
               /\ UNCHANGED <<db, next_id, hist>>
          ELSE PostCreate(r.item, fails)

\* The id taken from the payload when it carries one.
PutItemId_FromPayload(data, item_id) ==
  IF "id" \in DOMAIN data THEN data.id ELSE item_id

\* routes.py: item.id = item_id
PutItemId(data, item_id) == item_id

\* Every request taken for JSON.
IsJson_Always(body) == TRUE

\* routes.py: request.is_json
IsJson(body) == body.is_json

\* routes.py: InventoryResource.put
Put(item_id, body, fails) ==
  IF find(item_id) = None
    THEN /\ resp' = Response("PUT", item_id, HTTP_404_NOT_FOUND, NotFound, {})
         /\ UNCHANGED <<db, next_id, hist>>
    ELSE IF ~IsJson(body)
      THEN /\ resp' = Response("PUT", item_id, HTTP_415_UNSUPPORTED_MEDIA_TYPE,
                           "Content-Type must be application/json", {})
           /\ UNCHANGED <<db, next_id, hist>>
      ELSE
        LET r == deserialize(find(item_id)[1], body)
        IN  IF ~r.ok
              THEN /\ resp' = Response("PUT", item_id, HTTP_400_BAD_REQUEST, r.error, {})
                   /\ UNCHANGED <<db, next_id, hist>>
              ELSE
                LET item == [r.item EXCEPT !.id = Some(PutItemId(body.data, item_id))]
                    u == update(item, item_id, fails)
                IN  IF ~u.ok
                      THEN /\ db' = u.rows
                           /\ resp' = Response("PUT", item_id, HTTP_400_BAD_REQUEST, u.error, {})
                           /\ UNCHANGED <<next_id, hist>>
                      ELSE /\ db' = u.rows
                           /\ hist' = HistMove(hist, item_id, u.item.id[1], u.item.quantity[1])
                           /\ resp' = Response("PUT", item_id, HTTP_200_OK, "", {serialize(u.item)})
                           /\ UNCHANGED next_id

\* routes.py: InventoryResource.delete
Delete(item_id, fails) ==
  IF find(item_id) = None
    THEN /\ resp' = Response("DELETE", item_id, HTTP_204_NO_CONTENT, "", {})
         /\ UNCHANGED <<db, next_id, hist>>
    ELSE
      LET d == delete(find(item_id)[1], fails)
      IN  IF ~d.ok
            THEN /\ db' = d.rows
                 /\ resp' = Response("DELETE", item_id, HTTP_400_BAD_REQUEST, d.error, {})
                 /\ UNCHANGED <<next_id, hist>>
            ELSE /\ db' = d.rows
                 /\ hist' = Drop(hist, item_id)
                 /\ resp' = Response("DELETE", item_id, HTTP_204_NO_CONTENT, "", {})
                 /\ UNCHANGED next_id

\* The increment taken from restock_level.
RestockQuantity_Level(item) == item.quantity[1] + item.restock_level[1]

\* routes.py: item.quantity += item.restock_amount
RestockQuantity(item) == item.quantity[1] + item.restock_amount[1]

\* A restock that also sets the restock level to 0.
Restock_LevelToo(item_id, fails) ==
  IF find(item_id) = None
    THEN /\ resp' = Response("RESTOCK", item_id, HTTP_404_NOT_FOUND, NotFound, {})
         /\ UNCHANGED <<db, next_id, hist>>
    ELSE
      LET item == [find(item_id)[1] EXCEPT !.quantity = Some(RestockQuantity(find(item_id)[1])),
                                        !.restock_level = Some(0)]
          u == update(item, item_id, fails)
      IN  IF ~u.ok
            THEN /\ db' = u.rows
                 /\ resp' = Response("RESTOCK", item_id, HTTP_400_BAD_REQUEST, u.error, {})
                 /\ UNCHANGED <<next_id, hist>>
            ELSE /\ db' = u.rows
                 /\ hist' = HistRestock(hist, item_id, db[item_id].restock_amount)
                 /\ resp' = Response("RESTOCK", item_id, HTTP_200_OK, "", {serialize(u.item)})
                 /\ UNCHANGED next_id

\* routes.py: RestockResource.put
Restock(item_id, fails) ==
  IF find(item_id) = None
    THEN /\ resp' = Response("RESTOCK", item_id, HTTP_404_NOT_FOUND, NotFound, {})
         /\ UNCHANGED <<db, next_id, hist>>
    ELSE
      LET item == [find(item_id)[1] EXCEPT !.quantity = Some(RestockQuantity(find(item_id)[1]))]
          u == update(item, item_id, fails)
      IN  IF ~u.ok
            THEN /\ db' = u.rows
                 /\ resp' = Response("RESTOCK", item_id, HTTP_400_BAD_REQUEST, u.error, {})
                 /\ UNCHANGED <<next_id, hist>>
            ELSE /\ db' = u.rows
                 /\ hist' = HistRestock(hist, item_id, db[item_id].restock_amount)
                 /\ resp' = Response("RESTOCK", item_id, HTTP_200_OK, "", {serialize(u.item)})
                 /\ UNCHANGED next_id

\* A lookup by id that takes the record out of the table.
GetItem_Consuming(item_id) ==
  /\ resp' = IF find(item_id) = None
               THEN Response("GET", item_id, HTTP_404_NOT_FOUND, NotFound, {})
               ELSE Response("GET", item_id, HTTP_200_OK, "", {serialize(find(item_id)[1])})
  /\ db' = Drop(db, item_id)
  /\ hist' = Drop(hist, item_id)
  /\ UNCHANGED next_id

\* routes.py: InventoryResource.get
GetItem(item_id) ==
  /\ resp' = IF find(item_id) = None
               THEN Response("GET", item_id, HTTP_404_NOT_FOUND, NotFound, {})
               ELSE Response("GET", item_id, HTTP_200_OK, "", {serialize(find(item_id)[1])})
  /\ UNCHANGED <<db, next_id, hist>>

PathIds == 0..MaxId

\* Workers that serve requests at the same time.
MaxWorkers == 2
Workers == 1..MaxWorkers

\* A worker that is not in the middle of a request.
Idle == [stage |-> "idle", item |-> NewEntity]
NoPosts == [w \in Workers |-> Idle]

\* No method called yet.
NoCall == [op |-> "none", before |-> NewEntity, ok |-> TRUE, error |-> "", value |-> {}]

Init ==
  /\ db = <<>>
  /\ next_id = 1
  /\ hist = <<>>
  /\ resp = Response("NONE", 0, 0, "", {})
  /\ list_args = None
  /\ ent = NewEntity
  /\ out = NoCall
  /\ posts = NoPosts


----------------------------------------------------------------------------
(* GET /api/inventory *)

Lower(c) == CASE c = "A" -> "a" [] c = "B" -> "b" [] OTHER -> c

\* text ILIKE pattern, on sequences of characters: % matches any run of
\* characters, _ any one character, letters match in either case.
RECURSIVE Like(_, _)
Like(pattern, text) ==
  IF pattern = <<>>
    THEN text = <<>>
    ELSE IF Head(pattern) = "%"
      THEN Like(Tail(pattern), text) \/ (text # <<>> /\ Like(pattern, Tail(text)))
      ELSE /\ text # <<>>
           /\ (Head(pattern) = "_" \/ Lower(Head(pattern)) = Lower(Head(text)))
           /\ Like(Tail(pattern), Tail(text))

\* Python truth value of an optional string: neither None nor empty.  The
\* condition is a string, the query a sequence of characters.
Truthy(o) == o # None /\ o[1] # ""
TruthyChars(o) == o # None /\ o[1] # <<>>

\* build_inventory_query with the integer filters tested for truth, not for None.
build_inventory_query_Truthy(args, rows) ==
  IF Truthy(args.condition) /\ ~ConditionByName(Upper(args.condition[1])).ok
    THEN [ok |-> FALSE, ids |-> {}]
    ELSE [ok |-> TRUE, ids |->
      { i \in DOMAIN rows :
          /\ Truthy(args.condition) =>
               rows[i].condition = ConditionByName(Upper(args.condition[1])).val
          /\ (args.product_id # None /\ args.product_id # Some(0)) =>
               rows[i].product_id = args.product_id[1]
          /\ (args.quantity # None /\ args.quantity # Some(0)) =>
               rows[i].quantity = args.quantity[1]
          /\ (args.quantity_lt # None /\ args.quantity_lt # Some(0)) =>
               rows[i].quantity < args.quantity_lt[1]
          /\ (args.quantity_gt # None /\ args.quantity_gt # Some(0)) =>
               rows[i].quantity > args.quantity_gt[1]
          /\ (args.restock_level # None /\ args.restock_level # Some(0)) =>
               rows[i].restock_level = args.restock_level[1]
          /\ (args.restock_lt # None /\ args.restock_lt # Some(0)) =>
               rows[i].restock_level < args.restock_lt[1]
          /\ (args.restock_gt # None /\ args.restock_gt # Some(0)) =>
               rows[i].restock_level > args.restock_gt[1]
          /\ TruthyChars(args.query) =>
               /\ rows[i].description # None
               /\ Like(<<"%">> \o args.query[1] \o <<"%">>, rows[i].description[1]) }]

\* routes.py: build_inventory_query.  ok = FALSE stands for the KeyError of
\* Condition[...]; ids are the rows the query selects.
build_inventory_query(args, rows) ==
  IF Truthy(args.condition) /\ ~ConditionByName(Upper(args.condition[1])).ok
    THEN [ok |-> FALSE, ids |-> {}]
    ELSE [ok |-> TRUE, ids |->
      { i \in DOMAIN rows :
          /\ Truthy(args.condition) =>
               rows[i].condition = ConditionByName(Upper(args.condition[1])).val
          /\ args.product_id # None => rows[i].product_id = args.product_id[1]
          /\ args.quantity # None => rows[i].quantity = args.quantity[1]
          /\ args.quantity_lt # None => rows[i].quantity < args.quantity_lt[1]
          /\ args.quantity_gt # None => rows[i].quantity > args.quantity_gt[1]
          /\ args.restock_level # None => rows[i].restock_level = args.restock_level[1]
          /\ args.restock_lt # None => rows[i].restock_level < args.restock_lt[1]
          /\ args.restock_gt # None => rows[i].restock_level > args.restock_gt[1]
          /\ TruthyChars(args.query) =>
               /\ rows[i].description # None
               /\ Like(<<"%">> \o args.query[1] \o <<"%">>, rows[i].description[1]) }]

\* routes.py: InventoryCollection.get for the parsed query string args
ListRequest(args) ==
  /\ LET q == build_inventory_query(args, db)
     IN  resp' = IF ~q.ok
                   THEN Response("LIST", 0, HTTP_200_OK, "", {})
                   ELSE Response("LIST", 0, HTTP_200_OK, "",
                                 { serialize(Load(i, db[i])) : i \in q.ids })
  /\ UNCHANGED <<db, next_id, hist>>

\* InventoryCollection.get serving the request in list_args
List ==
  /\ list_args # None
  /\ ListRequest(list_args[1])
  /\ UNCHANGED <<list_args, ent, out, posts>>

\* routes.py: health_check
health_check ==
  /\ resp' = Response("HEALTH", 0, HTTP_200_OK, "Healthy", {})
  /\ UNCHANGED <<db, next_id, hist>>

\* Filters a list request may supply at once.
MaxSupplied == 3

FilterNames ==
  {"condition", "product_id", "quantity", "quantity_lt", "quantity_gt",
   "restock_level", "restock_lt", "restock_gt", "query"}

IntOptions == {None, Some(0), Some(1)}

AllArgs ==
  { a \in [condition : {None, Some(""), Some("NEW"), Some("new"), Some("Open_Box"),
                        Some("bogus")},
           product_id : IntOptions, quantity : IntOptions, quantity_lt : IntOptions,
           quantity_gt : IntOptions, restock_level : IntOptions,
           restock_lt : IntOptions, restock_gt : IntOptions,
           query : {None, Some(<<>>), Some(<<"A">>), Some(<<"_">>)}] :
      Cardinality({k \in FilterNames : a[k] # None}) <= MaxSupplied }

\* The list requests served between the other requests: no filter, or one.
ReadArgs == { a \in AllArgs : Cardinality({k \in FilterNames : a[k] # None}) <= 1 }

\* The store fails during a commit only where the request reaches one.
Next ==
  \/ \E b \in JsonBodies, f \in BOOLEAN :
       (f => b \in ValidBodies) /\ Post(b, f) /\ UNCHANGED outside
  \/ \E i \in PathIds, b \in Bodies, f \in BOOLEAN :
       (f => b \in ValidBodies) /\ Put(i, b, f) /\ UNCHANGED outside
  \/ \E i \in PathIds, f \in BOOLEAN : Delete(i, f) /\ UNCHANGED outside
  \/ \E i \in PathIds, f \in BOOLEAN : Restock(i, f) /\ UNCHANGED outside
  \/ \E i \in PathIds : GetItem(i) /\ UNCHANGED outside
  \/ \E a \in ReadArgs : ListRequest(a) /\ UNCHANGED outside
  \/ health_check /\ UNCHANGED outside

Spec == Init /\ [][Next]_vars

\* Rows of the tables the list requests are served from.
QueryRows ==
  { [product_id |-> 0, quantity |-> 0, restock_level |-> 2, restock_amount |-> 1,
     condition |-> CHOOSE c \in Condition : c.name = "NEW", description |-> None],
    [product_id |-> 1, quantity |-> 2, restock_level |-> 0, restock_amount |-> 0,
     condition |-> CHOOSE c \in Condition : c.name = "USED",
     description |-> Some(<<"a", "B">>)],
    [product_id |-> 1, quantity |-> 1, restock_level |-> 1, restock_amount |-> 1,
     condition |-> CHOOSE c \in Condition : c.name = "OPEN_BOX",
     description |-> Some(<<"b">>)],
    [product_id |-> 2, quantity |-> 1, restock_level |-> 0, restock_amount |-> 2,
     condition |-> CHOOSE c \in Condition : c.name = "NEW",
     description |-> Some(<<>>)] }

QueryIds == {1, 2}

\* Tables of up to two records, as POST and PUT leave them.
InitQuery ==
  /\ db \in UNION { [S -> QueryRows] : S \in SUBSET QueryIds }
  /\ next_id = 3
  /\ hist = [i \in DOMAIN db |-> HistStart(db[i].quantity)]
  /\ resp = Response("NONE", 0, 0, "", {})
  /\ list_args \in { Some(a) : a \in AllArgs }
  /\ ent = NewEntity
  /\ out = NoCall
  /\ posts = NoPosts

NextQuery == List

SpecQuery == InitQuery /\ [][NextQuery]_vars

----------------------------------------------------------------------------
(* POST /api/inventory served by several workers at once.  The duplicate    *)
(* lookup is one statement of the store and item.create() another; a        *)
(* worker may run between the two of another worker.                        *)

\* routes.py: InventoryCollection.post up to the duplicate lookup
PostLookup(w, body) ==
  /\ posts[w].stage = "idle"
  /\ LET r == deserialize(NewEntity, PostData(body))
     IN  IF ~r.ok
           THEN /\ resp' = Response("POST", 0, HTTP_400_BAD_REQUEST, r.error, {})
                /\ UNCHANGED posts
           ELSE IF ExistingProduct(r.item)
             THEN /\ resp' = Response("POST", 0, HTTP_409_CONFLICT, "already exists", {})
                  /\ UNCHANGED posts
             ELSE /\ posts' = [posts EXCEPT ![w] = [stage |-> "checked", item |-> r.item]]
                  /\ UNCHANGED resp
  /\ UNCHANGED <<db, next_id, hist, list_args, ent, out>>

\* routes.py: InventoryCollection.post from item.create() on
PostInsert(w, fails) ==
  /\ posts[w].stage = "checked"
  /\ PostCreate(posts[w].item, fails)
  /\ posts' = [posts EXCEPT ![w] = Idle]
  /\ UNCHANGED <<list_args, ent, out>>

NextRace ==
  \/ \E w \in Workers, b \in JsonBodies : PostLookup(w, b)
  \/ \E w \in Workers, f \in BOOLEAN : PostInsert(w, f)

SpecRace == Init /\ [][NextRace]_vars

----------------------------------------------------------------------------
(* The methods of Inventory called on an object directly, as the unit tests *)
(* do: serialize, deserialize, and deserialize of the object's own          *)
(* serialization into a new Inventory().                                    *)

\* self.condition.name raises AttributeError when the condition is None or
\* a value without the attribute name (anything but a member of Condition).
SerializeRaises(e) == e.condition = None \/ e.condition[1] \notin Condition

Call(op, before, ok, error, value) ==
  [op |-> op, before |-> before, ok |-> ok, error |-> error, value |-> value]

\* item.serialize()
Serialize ==
  /\ out' = IF SerializeRaises(ent)
              THEN Call("serialize", ent, FALSE, "AttributeError", {})
              ELSE Call("serialize", ent, TRUE, "", {serialize(ent)})
  /\ UNCHANGED <<db, next_id, resp, hist, list_args, posts, ent>>

\* item.deserialize(data): the object is what the call left of it, also when
\* the call raised.
Deserialize(body) ==
  LET r == deserialize(ent, body)
  IN  /\ ent' = r.item
      /\ out' = Call("deserialize", ent, r.ok, r.error, {body})
      /\ UNCHANGED <<db, next_id, resp, hist, list_args, posts>>

\* Inventory().deserialize(item.serialize())
RoundTrip ==
  /\ ~SerializeRaises(ent)
  /\ LET r == deserialize(NewEntity, MappingBody(serialize(ent)))
     IN  out' = Call("roundtrip", ent, r.ok, r.error, {r.item})
  /\ UNCHANGED <<db, next_id, resp, hist, list_args, posts, ent>>

\* Objects with every attribute but the id set, as a factory builds them or
\* the session loads them, and the object Inventory() constructs.
Entities ==
  {NewEntity} \cup
  { [id |-> i, product_id |-> Some(1), quantity |-> Some(q), restock_level |-> Some(0),
     restock_amount |-> Some(a), condition |-> Some(c), description |-> d] :
      i \in {None, Some(1)}, q \in {0, MaxInt}, a \in {0, 1}, c \in Condition,
      d \in {None, Some(<<>>), Some(<<"a">>)} }

InitEntity ==
  /\ db = <<>>
  /\ next_id = 1
  /\ hist = <<>>
  /\ resp = Response("NONE", 0, 0, "", {})
  /\ list_args = None
  /\ ent \in Entities
  /\ out = NoCall
  /\ posts = NoPosts

NextEntity ==
  \/ Serialize
  \/ \E b \in JsonBodies : Deserialize(b)
  \/ RoundTrip

SpecEntity == InitEntity /\ [][NextEntity]_vars

----------------------------------------------------------------------------
(* What the properties below say about a request, in terms of the table     *)
(* and the body alone.                                                      *)

ConditionNames == {"NEW", "USED", "OPEN_BOX"}

\* The body is an object with the four integer fields in the column range and
\* a condition POST accepts.
ValidForPost(b) ==
  /\ b.is_json /\ b.is_mapping
  /\ {"product_id", "quantity", "restock_level", "restock_amount", "condition"}
       \subseteq DOMAIN b.data
  /\ \A k \in {"product_id", "quantity", "restock_level", "restock_amount"} :
       b.data[k] \in (0 - MaxInt - 1)..MaxInt
  /\ b.data.condition \in ConditionNames \cup {"new", "used", "Open_Box"}

HasProduct(rows, p) == \E i \in DOMAIN rows : rows[i].product_id = p

StoreUnchanged == db' = db /\ next_id' = next_id

----------------------------------------------------------------------------
(* C1: a POST with a valid body whose product_id is that of an existing     *)
(* record answers 409 and leaves the table as it was (nothing is inserted,  *)
(* no id is drawn); a POST with a valid body whose product_id no record     *)
(* has, the store working, answers 201 and the record exists afterwards.    *)
C1_DuplicatePostConflicts ==
  [][resp'.op = "POST" => \A b \in JsonBodies, f \in BOOLEAN :
       (ValidForPost(b) /\ Post(b, f)) =>
         IF HasProduct(db, b.data.product_id)
           THEN resp'.status = HTTP_409_CONFLICT /\ StoreUnchanged
           ELSE ~f => /\ resp'.status = HTTP_201_CREATED
                      /\ DOMAIN db' = DOMAIN db \cup {resp'.id}
                      /\ resp'.id \notin DOMAIN db
                      /\ db'[resp'.id].product_id = b.data.product_id]_vars

\* A second POST of product_id 1 was refused while the first one's record exists.
C1_Witness ==
  /\ resp.op = "POST" /\ resp.status = HTTP_409_CONFLICT
  /\ Cardinality({i \in DOMAIN db : db[i].product_id = 1}) = 1

(* C2: no two existing records have the same product_id. *)
C2_UniqueProductIds ==
  \A i, j \in DOMAIN db : i # j => db[i].product_id # db[j].product_id

(* C3: for a record with restock_amount > 0, the stored quantity is the      *)
(* quantity of its last create/update plus restock_amount times the number  *)
(* of restocks answered 200 since, and a restock answered 200 returns the   *)
(* stored quantity.                                                         *)
C3_RestockArithmetic ==
  /\ \A i \in DOMAIN db :
       db[i].restock_amount > 0 =>
         db[i].quantity = hist[i].orig + hist[i].n * db[i].restock_amount
  /\ (resp.op = "RESTOCK" /\ resp.status = HTTP_200_OK) =>
       /\ resp.id \in DOMAIN db
       /\ db[resp.id].restock_amount > 0 => hist[resp.id].n >= 1
       /\ \A r \in resp.body : r.id = Some(resp.id) /\ r.quantity = db[resp.id].quantity

\* Two restocks in a row of a record with restock_amount > 0.
C3_Witness ==
  /\ resp.op = "RESTOCK" /\ resp.status = HTTP_200_OK
  /\ resp.id \in DOMAIN db
  /\ db[resp.id].restock_amount > 0
  /\ hist[resp.id].n = 2
  /\ db[resp.id].quantity = hist[resp.id].orig + 2 * db[resp.id].restock_amount

(* C5: the store working, DELETE answers 204 whether or not the id exists;   *)
(* afterwards the id does not exist and every other record is as before, so *)
(* on an absent id (a repeated DELETE included) nothing changes.            *)
C5_DeleteIdempotent ==
  [][(resp'.op = "DELETE" /\ Delete(resp'.id, FALSE)) =>
       /\ resp'.status = HTTP_204_NO_CONTENT
       /\ DOMAIN db' = DOMAIN db \ {resp'.id}
       /\ \A k \in DOMAIN db' : db'[k] = db[k]
       /\ resp'.id \notin DOMAIN db => StoreUnchanged]_vars

\* A DELETE of a record that leaves another record behind.
C5_Witness ==
  /\ resp.op = "DELETE" /\ resp.status = HTTP_204_NO_CONTENT
  /\ resp.id \in 1..(next_id - 1)
  /\ resp.id \notin DOMAIN db
  /\ DOMAIN db # {}

\* Spellings of the condition names in another letter case.
OtherCase == {"new", "used", "Open_Box"}

CarriesCondition(b) == b.is_mapping /\ "condition" \in DOMAIN b.data

C8_FailedCommitRolledBack ==
  [][/\ resp'.op = "POST" =>
          \A b \in ValidBodies :
            (~HasProduct(db, b.data.product_id) /\ Post(b, TRUE)) =>
              resp'.status = HTTP_400_BAD_REQUEST /\ db' = db
     /\ (resp'.op = "PUT" /\ resp'.id \in DOMAIN db) =>
          \A b \in ValidBodies :
            Put(resp'.id, b, TRUE) => resp'.status = HTTP_400_BAD_REQUEST /\ db' = db
     /\ (resp'.op = "DELETE" /\ resp'.id \in DOMAIN db) =>
          (Delete(resp'.id, TRUE) => resp'.status = HTTP_400_BAD_REQUEST /\ db' = db)
     /\ (resp'.op = "RESTOCK" /\ resp'.id \in DOMAIN db) =>
          (Restock(resp'.id, TRUE) => resp'.status = HTTP_400_BAD_REQUEST /\ db' = db)
     /\ (resp'.message = StoreError /\ resp' # resp) =>
          resp'.status = HTTP_400_BAD_REQUEST /\ db' = db]_vars

\* A DELETE whose commit failed: the record is still there.
C8_Witness ==
  /\ resp.op = "DELETE" /\ resp.status = HTTP_400_BAD_REQUEST
  /\ resp.message = StoreError
  /\ resp.id \in DOMAIN db

(* C9: GET, PUT and restock on an id that does not exist answer 404 and      *)
(* leave the table as it was, for PUT whatever the body and content type.   *)
C9_AbsentIdNotFound ==
  [][resp'.id \in PathIds \ DOMAIN db =>
       /\ (resp'.op = "GET" /\ GetItem(resp'.id)) =>
            resp'.status = HTTP_404_NOT_FOUND /\ StoreUnchanged
       /\ resp'.op = "PUT" =>
            \A b \in Bodies, f \in BOOLEAN :
              Put(resp'.id, b, f) => resp'.status = HTTP_404_NOT_FOUND /\ StoreUnchanged
       /\ resp'.op = "RESTOCK" =>
            \A f \in BOOLEAN :
              Restock(resp'.id, f) =>
                resp'.status = HTTP_404_NOT_FOUND /\ StoreUnchanged]_vars

\* A PUT on an absent id while another record exists.
C9_Witness ==
  /\ resp.op = "PUT" /\ resp.status = HTTP_404_NOT_FOUND
  /\ resp.id \notin DOMAIN db
  /\ DOMAIN db # {}

(* C10: a PUT or a restock leaves every record under the id it had: the set  *)
(* of ids is unchanged, and a 200 carries the id of the path, under which   *)
(* the returned values are stored.                                          *)
C10_IdFixed ==
  [][resp'.op \in {"PUT", "RESTOCK"} =>
       /\ DOMAIN db' = DOMAIN db
       /\ resp'.status = HTTP_200_OK =>
            /\ resp'.id \in DOMAIN db
            /\ \A r \in resp'.body :
                 /\ r.id = Some(resp'.id)
                 /\ r.product_id = db'[resp'.id].product_id
                 /\ r.quantity = db'[resp'.id].quantity]_vars

\* A PUT on record 1 answered 200 with the values of the payload that
\* carries id MaxId.
C10_Witness ==
  /\ resp.op = "PUT" /\ resp.status = HTTP_200_OK
  /\ resp.id = 1 /\ 1 \in DOMAIN db
  /\ db[1].condition.name = "USED"
  /\ \A r \in resp.body : r.id = Some(1) /\ r.condition = "USED"

----------------------------------------------------------------------------
(* Properties of GET /api/inventory, under SpecQuery *)

\* The condition name a spelling stands for, whatever its letter case.
Canon(s) ==
  CASE s \in {"NEW", "new"} -> "NEW"
    [] s \in {"USED", "used"} -> "USED"
    [] s \in {"OPEN_BOX", "Open_Box"} -> "OPEN_BOX"
    [] OTHER -> s

\* Row r satisfies the integer filters args supplies.
SatisfiesIntFilters(args, r) ==
  /\ args.product_id # None => r.product_id = args.product_id[1]
  /\ args.quantity # None => r.quantity = args.quantity[1]
  /\ args.quantity_lt # None => r.quantity < args.quantity_lt[1]
  /\ args.quantity_gt # None => r.quantity > args.quantity_gt[1]
  /\ args.restock_level # None => r.restock_level = args.restock_level[1]
  /\ args.restock_lt # None => r.restock_level < args.restock_lt[1]
  /\ args.restock_gt # None => r.restock_level > args.restock_gt[1]

Listed(ids) == { serialize(Load(i, db[i])) : i \in ids }

(* C4 as stated: without a query parameter the list is answered 200 with     *)
(* exactly the records that satisfy every supplied filter; a filter is      *)
(* supplied when its parameter is present, whatever its value.              *)
C4_ListFiltersAnd ==
  (resp.op = "LIST" /\ list_args[1].query = None) =>
    /\ resp.status = HTTP_200_OK
    /\ resp.body = Listed({ i \in DOMAIN db :
         /\ list_args[1].condition # None =>
              db[i].condition.name = Canon(list_args[1].condition[1])
         /\ SatisfiesIntFilters(list_args[1], db[i]) })

(* C4 amended: as C4, a condition parameter that is present and empty        *)
(* imposing no constraint, like an omitted one.                             *)
C4_ListFiltersAndNonEmpty ==
  (resp.op = "LIST" /\ list_args[1].query = None) =>
    /\ resp.status = HTTP_200_OK
    /\ resp.body = Listed({ i \in DOMAIN db :
         /\ (list_args[1].condition # None /\ list_args[1].condition # Some("")) =>
              db[i].condition.name = Canon(list_args[1].condition[1])
         /\ SatisfiesIntFilters(list_args[1], db[i]) })

\* Three filters at once, one of them with the value 0, select one of two
\* records.
C4_Witness ==
  /\ resp.op = "LIST" /\ resp.status = HTTP_200_OK
  /\ list_args[1].query = None
  /\ list_args[1].condition = Some("new")
  /\ list_args[1].quantity = Some(0)
  /\ list_args[1].restock_gt = Some(1)
  /\ Cardinality(DOMAIN db) = 2
  /\ Cardinality(resp.body) = 1

(* C7 as stated: a list request whose condition is not NEW, USED or          *)
(* OPEN_BOX in any letter case is answered 200 with an empty array and      *)
(* leaves the table as it was, whatever the other filters and the records.  *)
C7_UnknownConditionEmptyList ==
  [][(list_args # None /\ list_args[1].condition # None
        /\ Canon(list_args[1].condition[1]) \notin ConditionNames /\ List) =>
       resp'.status = HTTP_200_OK /\ resp'.body = {} /\ StoreUnchanged]_vars

(* C7 amended: as C7, for a condition that is not empty.                     *)
C7_UnknownConditionEmptyListNonEmpty ==
  [][(list_args # None /\ list_args[1].condition # None
        /\ list_args[1].condition # Some("")
        /\ Canon(list_args[1].condition[1]) \notin ConditionNames /\ List) =>
       resp'.status = HTTP_200_OK /\ resp'.body = {} /\ StoreUnchanged]_vars

\* condition=bogus with another filter, against a table of two records.
C7_Witness ==
  /\ resp.op = "LIST" /\ resp.status = HTTP_200_OK /\ resp.body = {}
  /\ list_args[1].condition = Some("bogus")
  /\ list_args[1].quantity_gt = Some(0)
  /\ Cardinality(DOMAIN db) = 2

----------------------------------------------------------------------------
\* The record a 201 carries for the object of body b stored under id i: the
\* posted values, the condition by its upper-cased name.
Posted(b, i) ==
  [id |-> Some(i), product_id |-> b.data.product_id, quantity |-> b.data.quantity,
   restock_level |-> b.data.restock_level, restock_amount |-> b.data.restock_amount,
   condition |-> Upper(b.data.condition),
   description |-> IF "description" \in DOMAIN b.data
                     THEN b.data.description ELSE None]

(* C11: a POST answered 201 gives the new record an id no existing record    *)
(* has, whatever id the payload carries; the 201 carries that id and the    *)
(* posted values, the other records stay as they were, and a GET of that id *)
(* right after answers 200 with the same record.                            *)
C11_PostAssignsFreshId ==
  [][/\ (resp'.op = "POST" /\ resp'.status = HTTP_201_CREATED) =>
          \A b \in JsonBodies :
            Post(b, FALSE) =>
              /\ resp'.id \notin DOMAIN db
              /\ DOMAIN db' = DOMAIN db \cup {resp'.id}
              /\ \A k \in DOMAIN db : db'[k] = db[k]
              /\ resp'.body = {Posted(b, resp'.id)}
     /\ (/\ resp.op = "POST" /\ resp.status = HTTP_201_CREATED
         /\ resp'.op = "GET" /\ resp'.id = resp.id
         /\ GetItem(resp.id)) =>
          resp'.status = HTTP_200_OK /\ resp'.body = resp.body]_vars

\* The object that carries id MaxId was posted and is stored under another
\* id than the one it carries.
C11_Witness ==
  /\ resp.op = "POST" /\ resp.status = HTTP_201_CREATED
  /\ resp.id \in DOMAIN db /\ resp.id # MaxId
  /\ db[resp.id].product_id = 2
  /\ \E r \in resp.body : r.id = Some(resp.id) /\ r.condition = "USED"

\* Every attribute deserialize assigns has a value and the condition is a
\* member of the enumeration.
ValidEntity(e) ==
  /\ \A k \in {"product_id", "quantity", "restock_level", "restock_amount"} : e[k] # None
  /\ e.condition # None /\ e.condition[1] \in Condition

(* C12: for a valid entity e, deserialize of serialize(e) into a new        *)
(* Inventory() succeeds and gives product_id, quantity, restock_level,      *)
(* restock_amount, condition and description equal to those of e.           *)
C12_RoundTrip ==
  (out.op = "roundtrip" /\ ValidEntity(out.before)) =>
    /\ out.ok
    /\ \A r \in out.value :
         \A k \in {"product_id", "quantity", "restock_level", "restock_amount",
                   "condition", "description"} : r[k] = out.before[k]

\* The round trip of an OPEN_BOX object that has a description and no id.
C12_Witness ==
  /\ out.op = "roundtrip" /\ out.ok
  /\ out.before.id = None
  /\ out.before.description = Some(<<"a">>)
  /\ out.before.condition # None /\ out.before.condition[1].name = "OPEN_BOX"
  /\ out.before.quantity = Some(MaxInt)

\* The first of product_id, quantity, restock_level, restock_amount that the
\* object d does not have.
FirstMissing(d) ==
  IF "product_id" \notin DOMAIN d THEN "product_id"
  ELSE IF "quantity" \notin DOMAIN d THEN "quantity"
  ELSE IF "restock_level" \notin DOMAIN d THEN "restock_level"
  ELSE "restock_amount"

LacksIntKey(b) ==
  /\ b.is_mapping
  /\ \E k \in {"product_id", "quantity", "restock_level", "restock_amount"} :
       k \notin DOMAIN b.data

(* C13: deserialize of an object that lacks one or more of product_id,      *)
(* quantity, restock_level, restock_amount raises the validation error that *)
(* names the first missing key in that order, and a POST of such an object  *)
(* answers 400 with that message and leaves the table as it was.            *)
C13_MissingKeyNamed ==
  [][resp'.op = "POST" =>
       \A b \in JsonBodies :
         LacksIntKey(b) =>
           /\ ~deserialize(NewEntity, b).ok
           /\ deserialize(NewEntity, b).error =
                "Invalid Inventory: missing " \o FirstMissing(b.data)
           /\ \A f \in BOOLEAN :
                Post(b, f) =>
                  /\ resp'.status = HTTP_400_BAD_REQUEST
                  /\ resp'.message = "Invalid Inventory: missing " \o FirstMissing(b.data)
                  /\ StoreUnchanged]_vars

\* A POST of an object without quantity (and, for one of the bodies, without
\* restock_amount) was refused while a record exists.
C13_Witness ==
  /\ resp.op = "POST" /\ resp.status = HTTP_400_BAD_REQUEST
  /\ resp.message = "Invalid Inventory: missing quantity"
  /\ DOMAIN db # {}

\* The object of body b has the four integer keys and no condition key.
OnlyConditionMissing(b) ==
  /\ b.is_mapping
  /\ {"product_id", "quantity", "restock_level", "restock_amount"} \subseteq DOMAIN b.data
  /\ "condition" \notin DOMAIN b.data

(* C14 as stated: deserialize of an object that has product_id, quantity,   *)
(* restock_level and restock_amount and no condition key succeeds.          *)
C14_ConditionOptional ==
  (out.op = "deserialize" /\ \A b \in out.value : OnlyConditionMissing(b)) => out.ok

(* C14 amended: the condition key is required.  deserialize of an object    *)
(* that has the four integer keys and no condition key raises the           *)
(* validation error "missing condition", after it has assigned the four     *)
(* integers; the condition is looked up whenever the four keys are there.   *)
C14_ConditionRequired ==
  (out.op = "deserialize" /\ \A b \in out.value : OnlyConditionMissing(b)) =>
    /\ ~out.ok
    /\ out.error = "Invalid Inventory: missing condition"
    /\ ent.condition = out.before.condition
    /\ \A b \in out.value :
         \A k \in {"product_id", "quantity", "restock_level", "restock_amount"} :
           ent[k] = Some(b.data[k])

\* deserialize of an object without condition was called on a new Inventory().
C14_Witness ==
  /\ out.op = "deserialize" /\ ~out.ok
  /\ out.error = "Invalid Inventory: missing condition"
  /\ out.before = NewEntity
  /\ ent.condition = None /\ ent.quantity # None

(* C15: the condition of every stored record is one of NEW, USED, OPEN_BOX, *)
(* whatever POST, PUT, DELETE and restock requests came before.             *)
C15_StoredConditionValid ==
  \A i \in DOMAIN db : db[i].condition \in Condition

\* A PUT whose condition names an attribute of the class that is not a member
\* was refused by update, and the record keeps a member.
C15_Witness ==
  /\ resp.op = "PUT" /\ resp.status = HTTP_400_BAD_REQUEST
  /\ resp.message = "Invalid condition"
  /\ resp.id \in DOMAIN db
  /\ db[resp.id].condition \in Condition

\* A JSON body PUT refuses: not an object, a key missing, or a condition that
\* is not the name of a member.
InvalidForPut(b) ==
  /\ b.is_json
  /\ \/ ~b.is_mapping
     \/ ~({"product_id", "quantity", "restock_level", "restock_amount", "condition"}
            \subseteq DOMAIN b.data)
     \/ b.data.condition \notin ConditionNames

RefusedByPut == { b \in Bodies : ~b.is_json \/ InvalidForPut(b) }

(* C16: a PUT on an absent id answers 404 whatever the body; on an existing *)
(* record it answers 415 when the body is not JSON and 400 when the JSON    *)
(* body fails validation, and in these cases the table is as it was.        *)
C16_PutErrorOrder ==
  [][resp'.op = "PUT" =>
       IF resp'.id \notin DOMAIN db
         THEN \A b \in Bodies, f \in BOOLEAN :
                Put(resp'.id, b, f) =>
                  resp'.status = HTTP_404_NOT_FOUND /\ StoreUnchanged
         ELSE \A b \in RefusedByPut :
                Put(resp'.id, b, FALSE) =>
                  /\ resp'.status = IF b.is_json THEN HTTP_400_BAD_REQUEST
                                                ELSE HTTP_415_UNSUPPORTED_MEDIA_TYPE
                  /\ StoreUnchanged]_vars

\* A PUT that was not JSON was refused on an existing record.
C16_Witness ==
  /\ resp.op = "PUT" /\ resp.status = HTTP_415_UNSUPPORTED_MEDIA_TYPE
  /\ resp.id \in DOMAIN db

(* C17: serialize called on any object, the one Inventory() constructs      *)
(* included, returns the mapping of its attributes and does not raise.      *)
C17_SerializeTotal ==
  out.op = "serialize" =>
    /\ out.ok
    /\ out.value = {serialize(out.before)}
    /\ ent = out.before

\* The ids the sequence has handed out that no record has: those of deleted
\* records.
Deleted == (1..(next_id - 1)) \ DOMAIN db

(* C18: an id whose record was deleted never has a record again; GET, PUT   *)
(* and restock on it answer 404 and change nothing; a POST with a           *)
(* product_id no existing record has (that of a deleted record included)    *)
(* answers 201 with an id never handed out before.                          *)
C18_DeletionAbsorbing ==
  [][/\ DOMAIN db \subseteq 1..(next_id - 1)
     /\ \A i \in Deleted : i \notin DOMAIN db'
     /\ (resp'.id \in Deleted /\ resp'.op \in {"GET", "PUT", "RESTOCK"}) =>
          /\ (resp'.op = "GET" /\ GetItem(resp'.id)) =>
               resp'.status = HTTP_404_NOT_FOUND
          /\ resp'.op = "PUT" =>
               \A b \in Bodies :
                 Put(resp'.id, b, FALSE) =>
                   resp'.status = HTTP_404_NOT_FOUND /\ StoreUnchanged
          /\ (resp'.op = "RESTOCK" /\ Restock(resp'.id, FALSE)) =>
               resp'.status = HTTP_404_NOT_FOUND /\ StoreUnchanged
     /\ (resp'.op = "POST" /\ Deleted # {}) =>
          \A b \in ValidBodies :
            (~HasProduct(db, b.data.product_id) /\ Post(b, FALSE)) =>
              /\ resp'.status = HTTP_201_CREATED
              /\ resp'.id \notin 1..(next_id - 1)
              /\ resp'.id \in DOMAIN db'
              /\ db'[resp'.id].product_id = b.data.product_id]_vars

\* Record 1 was deleted and a POST of product_id 1 then gave record 2.
C18_Witness ==
  /\ resp.op = "POST" /\ resp.status = HTTP_201_CREATED
  /\ resp.id = 2
  /\ DOMAIN db = {2}
  /\ db[2].product_id = 1

(* C19: a POST whose product_id no record has passes the duplicate lookup   *)
(* whatever the other workers are doing, and a POST that has passed it      *)
(* inserts its record and answers 201 even when another worker has          *)
(* inserted the same product_id in between: the table takes both.           *)
C19_RacingPostsBothInsert ==
  [][\A w \in Workers :
       /\ posts[w].stage = "idle" =>
            \A b \in ValidBodies :
              (~HasProduct(db, b.data.product_id) /\ PostLookup(w, b)) =>
                /\ posts'[w].stage = "checked"
                /\ posts'[w].item.product_id = Some(b.data.product_id)
       /\ (posts[w].stage = "checked" /\ PostInsert(w, FALSE)) =>
            /\ resp'.status = HTTP_201_CREATED
            /\ resp'.id \notin DOMAIN db
            /\ DOMAIN db' = DOMAIN db \cup {resp'.id}
            /\ db'[resp'.id].product_id = posts[w].item.product_id[1]
            /\ \A k \in DOMAIN db : db'[k] = db[k]]_vars

\* Two POSTs of product_id 1 were both answered 201: two records hold it.
C19_Witness ==
  /\ resp.op = "POST" /\ resp.status = HTTP_201_CREATED
  /\ DOMAIN db = {1, 2}
  /\ db[1].product_id = 1 /\ db[2].product_id = 1

(* C20: a GET of the list (no filter or any one filter), a GET by id and a  *)
(* GET of /health leave the set of records and every field value as they    *)
(* were, whatever requests came before.                                     *)
C20_ReadsChangeNothing ==
  [][resp'.op \in {"GET", "LIST", "HEALTH"} =>
       /\ DOMAIN db' = DOMAIN db
       /\ \A i \in DOMAIN db : db'[i] = db[i]
       /\ next_id' = next_id]_vars

\* A list request with a filter was served from a table of two records, one
\* of which it returned.
C20_Witness ==
  /\ resp.op = "LIST" /\ resp.status = HTTP_200_OK
  /\ Cardinality(DOMAIN db) = 2
  /\ Cardinality(resp.body) = 1

\* The row the object of a valid body b is stored as.
RowOfBody(b) ==
  [product_id |-> b.data.product_id, quantity |-> b.data.quantity,
   restock_level |-> b.data.restock_level, restock_amount |-> b.data.restock_amount,
   condition |-> CHOOSE c \in Condition : c.name = b.data.condition,
   description |-> IF "description" \in DOMAIN b.data THEN b.data.description ELSE None]

(* C21: after a PUT answered 200 the addressed record holds the payload's   *)
(* product_id, quantity, restock_level, restock_amount and condition, and   *)
(* the payload's description or null when the payload has none; it keeps    *)
(* its id, and every other record is as it was.                             *)
C21_PutReplacesFields ==
  [][(resp'.op = "PUT" /\ resp'.status = HTTP_200_OK) =>
       \A b \in ValidBodies :
         Put(resp'.id, b, FALSE) =>
           /\ DOMAIN db' = DOMAIN db
           /\ db'[resp'.id] = RowOfBody(b)
           /\ \A k \in DOMAIN db \ {resp'.id} : db'[k] = db[k]]_vars

\* A PUT of the object without description was answered 200 on the record
\* that was created with a description (POST refuses a second product_id 1,
\* so one of the two records was created as product_id 2).
C21_Witness ==
  /\ resp.op = "PUT" /\ resp.status = HTTP_200_OK
  /\ DOMAIN db = {1, 2}
  /\ db[1].product_id = 1 /\ db[2].product_id = 1
  /\ db[resp.id].description = None
  /\ db[1] = db[2]

(* C22: a PUT with a valid body on an existing record, whose product_id is  *)
(* that of another existing record, answers 200 and stores the product_id:  *)
(* two records then have it.                                                *)
C22_PutAcceptsDuplicate ==
  [][(resp'.op = "PUT" /\ resp'.id \in DOMAIN db) =>
       \A b \in ValidBodies :
         (/\ HasProduct(Drop(db, resp'.id), b.data.product_id)
          /\ Put(resp'.id, b, FALSE)) =>
           /\ resp'.status = HTTP_200_OK
           /\ db'[resp'.id].product_id = b.data.product_id
           /\ HasProduct(Drop(db', resp'.id), b.data.product_id)]_vars

\* A PUT gave a record the product_id 2 that another record has.
C22_Witness ==
  /\ resp.op = "PUT" /\ resp.status = HTTP_200_OK
  /\ resp.id \in DOMAIN db
  /\ db[resp.id].product_id = 2
  /\ HasProduct(Drop(db, resp.id), 2)

\* deserialize accepts body b and leaves a condition that is not a member of
\* the enumeration (the string Condition.__doc__).
LeavesNonMember(b) ==
  /\ deserialize(NewEntity, b).ok
  /\ deserialize(NewEntity, b).item.condition[1] \notin Condition

(* C23: update of an entity whose condition is not a member of Condition    *)
(* raises the validation error "Invalid condition" whether or not the       *)
(* commit would have succeeded, and the table is as it was: the PUT that    *)
(* brought the condition answers 400.                                       *)
C23_UpdateChecksCondition ==
  [][(resp'.op = "PUT" /\ resp'.id \in DOMAIN db) =>
       \A b \in JsonBodies, f \in BOOLEAN :
         (LeavesNonMember(b) /\ Put(resp'.id, b, f)) =>
           /\ resp'.status = HTTP_400_BAD_REQUEST
           /\ resp'.message = "Invalid condition"
           /\ StoreUnchanged
           /\ db[resp'.id].condition \in Condition]_vars

\* update refused the condition __doc__ on a record whose condition is USED.
C23_Witness ==
  /\ resp.op = "PUT" /\ resp.status = HTTP_400_BAD_REQUEST
  /\ resp.message = "Invalid condition"
  /\ resp.id \in DOMAIN db
  /\ db[resp.id].condition.name = "USED"

\* t begins with p, letters compared without regard to case.
RECURSIVE StartsWith(_, _)
StartsWith(p, t) ==
  \/ p = <<>>
  \/ /\ t # <<>>
     /\ Lower(Head(p)) = Lower(Head(t))
     /\ StartsWith(Tail(p), Tail(t))

\* q occurs in t as a substring, letters compared without regard to case.
RECURSIVE Substring(_, _)
Substring(q, t) == StartsWith(q, t) \/ (t # <<>> /\ Substring(q, Tail(t)))

(* C24: a list request with a non-empty query returns, of the records the   *)
(* other filters select, exactly those whose description is not null and    *)
(* contains the query as a substring in any letter case.                    *)
C24_QuerySubstring ==
  [][(list_args # None /\ TruthyChars(list_args[1].query) /\ List) =>
       resp'.body =
         Listed({ i \in build_inventory_query([list_args[1] EXCEPT !.query = None], db).ids :
                    /\ db[i].description # None
                    /\ Substring(list_args[1].query[1], db[i].description[1]) })]_vars

\* The spellings of condition name n a request may carry.
Spellings(n) ==
  { s \in {"NEW", "new", "USED", "used", "OPEN_BOX", "Open_Box"} : Canon(s) = n }

(* C25: a list request whose condition names a member in any letter case    *)
(* returns, of the records the other filters select, exactly those with     *)
(* that condition, and every other spelling of the name returns the same.   *)
C25_ConditionAnyCase ==
  (resp.op = "LIST" /\ list_args[1].condition # None
     /\ Canon(list_args[1].condition[1]) \in ConditionNames) =>
    /\ resp.body =
         Listed({ i \in build_inventory_query([list_args[1] EXCEPT !.condition = None],
                                              db).ids :
                    db[i].condition.name = Canon(list_args[1].condition[1]) })
    /\ \A s \in Spellings(Canon(list_args[1].condition[1])) :
         Listed(build_inventory_query([list_args[1] EXCEPT !.condition = Some(s)],
                                      db).ids) = resp.body

\* condition=Open_Box alone returns the one OPEN_BOX record of two records.
C25_Witness ==
  /\ resp.op = "LIST" /\ resp.status = HTTP_200_OK
  /\ list_args[1].condition = Some("Open_Box")
  /\ Cardinality({k \in FilterNames : list_args[1][k] # None}) = 1
  /\ Cardinality(DOMAIN db) = 2
  /\ Cardinality(resp.body) = 1
  /\ \A o \in resp.body : o.condition = "OPEN_BOX"

----------------------------------------------------------------------------
(* Requests whose integers are negative.  create_model declares min=0 on    *)
(* quantity, restock_level and restock_amount, but api.expect is given      *)
(* without validate=True, so the payload reaches deserialize as sent.       *)

\* Objects with negative integers.  The first has a quantity one restock
\* above the column's lower limit.
SignedData ==
  { [product_id |-> 1, quantity |-> 0 - MaxInt, restock_level |-> 0 - 1,
     restock_amount |-> 0 - 1, condition |-> "NEW"],
    [product_id |-> 2, quantity |-> 0 - 1, restock_level |-> 0, restock_amount |-> 0,
     condition |-> "USED"] }

SignedBodies == ValidBodies \cup { MappingBody(d) : d \in SignedData }

NextSigned ==
  \/ \E b \in SignedBodies : Post(b, FALSE) /\ UNCHANGED outside
  \/ \E i \in PathIds, b \in SignedBodies : Put(i, b, FALSE) /\ UNCHANGED outside
  \/ \E i \in PathIds : Restock(i, FALSE) /\ UNCHANGED outside

SpecSigned == Init /\ [][NextSigned]_vars

(* C26: after any sequence of create, update and restock requests every     *)
(* stored record has quantity, restock_level and restock_amount of at       *)
(* least 0.                                                                 *)
C26_NonNegative ==
  \A i \in DOMAIN db :
    db[i].quantity >= 0 /\ db[i].restock_level >= 0 /\ db[i].restock_amount >= 0

----------------------------------------------------------------------------
(* PUT /api/inventory/<id>/restock served by several workers at once.       *)
(* Inventory.find is one statement of the store and the commit of           *)
(* item.update() another; a worker may run between the two of another       *)
(* worker.                                                                  *)

\* routes.py: RestockResource.put up to Inventory.find
RestockRead(w, item_id) ==
  /\ posts[w].stage = "idle"
  /\ IF find(item_id) = None
       THEN /\ resp' = Response("RESTOCK", item_id, HTTP_404_NOT_FOUND, NotFound, {})
            /\ UNCHANGED posts
       ELSE /\ posts' = [posts EXCEPT ![w] = [stage |-> "read", item |-> find(item_id)[1]]]
            /\ UNCHANGED resp
  /\ UNCHANGED <<db, next_id, hist, list_args, ent, out>>

\* routes.py: RestockResource.put from item.quantity += item.restock_amount
\* on, for the object the worker loaded.  The UPDATE that the commit sends
\* sets the one attribute that was assigned, the quantity.
RestockCommit(w, fails) ==
  /\ posts[w].stage = "read"
  /\ LET loaded == posts[w].item
         item_id == loaded.id[1]
         item == [loaded EXCEPT !.quantity = Some(RestockQuantity(loaded))]
         u == update(item, item_id, fails)
     IN  IF ~u.ok
           THEN /\ resp' = Response("RESTOCK", item_id, HTTP_400_BAD_REQUEST, u.error, {})
                /\ UNCHANGED <<db, hist>>
           ELSE /\ db' = [db EXCEPT ![item_id].quantity = item.quantity[1]]
                /\ hist' = HistRestock(hist, item_id, loaded.restock_amount[1])
                /\ resp' = Response("RESTOCK", item_id, HTTP_200_OK, "", {serialize(u.item)})
  /\ posts' = [posts EXCEPT ![w] = Idle]
  /\ UNCHANGED <<next_id, list_args, ent, out>>

NextRestock ==
  \/ \E b \in ValidBodies : Post(b, FALSE) /\ UNCHANGED outside
  \/ \E w \in Workers, i \in PathIds : RestockRead(w, i)
  \/ \E w \in Workers, f \in BOOLEAN : RestockCommit(w, f)

SpecRestock == Init /\ [][NextRestock]_vars

(* C27: when two restocks of a record have been answered 200, overlapping   *)
(* or not, and no other is under way, the stored quantity is the original   *)
(* quantity plus twice the restock amount.                                  *)
C27_NoLostIncrement ==
  \A i \in DOMAIN db :
    (hist[i].n = 2 /\ \A w \in Workers : posts[w].stage = "idle") =>
      db[i].quantity = hist[i].orig + 2 * db[i].restock_amount

(* C28: a deserialize call that raises leaves every attribute of the        *)
(* object as it was before the call.                                        *)
C28_FailedDeserializeLeavesEntity ==
  (out.op = "deserialize" /\ ~out.ok) => ent = out.before

(* C29: a restock answered 200 changes the quantity of the addressed record *)
(* and nothing else: the same ids exist, the addressed record keeps its     *)
(* product_id, restock_level, restock_amount, condition and description,    *)
(* every other record keeps every field, and no id is drawn.                *)
C29_RestockFrame ==
  [][(resp'.op = "RESTOCK" /\ resp'.status = HTTP_200_OK) =>
       /\ DOMAIN db' = DOMAIN db
       /\ resp'.id \in DOMAIN db
       /\ db'[resp'.id] = [db[resp'.id] EXCEPT !.quantity = db'[resp'.id].quantity]
       /\ \A k \in DOMAIN db \ {resp'.id} : db'[k] = db[k]
       /\ next_id' = next_id]_vars

\* The restock of one of two records, which raised its quantity.
C29_Witness ==
  /\ resp.op = "RESTOCK" /\ resp.status = HTTP_200_OK
  /\ Cardinality(DOMAIN db) = 2
  /\ resp.id \in DOMAIN db
  /\ db[resp.id].quantity = hist[resp.id].orig + 1
  /\ db[resp.id].restock_level = 2
  /\ \E k \in DOMAIN db \ {resp.id} : db[k].description = Some(<<"a">>)

----------------------------------------------------------------------------
(* GET /, the page of the user interface.                                   *)

\* The object index() constructs when the table is empty.
SampleItem ==
  [id |-> None, product_id |-> Some(10101), quantity |-> Some(10),
   restock_level |-> Some(5), restock_amount |-> Some(5),
   condition |-> Some(CHOOSE c \in Condition : c.name = "NEW"),
   description |-> Some(<<"S", "a", "m", "p", "l", "e", " ", "i", "n", "v", "e", "n",
                          "t", "o", "r", "y", " ", "i", "t", "e", "m">>)]

\* An index() that adds the sample whatever the table holds.
index_Always(fails) ==
  /\ next_id <= MaxId
  /\ LET c == create(SampleItem, fails)
     IN  IF c.ok
           THEN /\ db' = c.rows
                /\ next_id' = next_id + 1
                /\ hist' = HistSet(hist, c.item.id[1], c.item.quantity[1])
                /\ resp' = Response("INDEX", 0, HTTP_200_OK, "", {})
           ELSE /\ db' = c.rows
                /\ resp' = Response("INDEX", 0, HTTP_500_INTERNAL_SERVER_ERROR,
                                    c.error, {})
                /\ UNCHANGED <<next_id, hist>>

\* routes.py: index.  The route is not one of the api's, so the error that
\* create() raises when the store fails is answered 500.
index(fails) ==
  IF DOMAIN db # {}
    THEN /\ resp' = Response("INDEX", 0, HTTP_200_OK, "", {})
         /\ UNCHANGED <<db, next_id, hist>>
    ELSE /\ next_id <= MaxId
         /\ LET c == create(SampleItem, fails)
            IN  IF c.ok
                  THEN /\ db' = c.rows
                       /\ next_id' = next_id + 1
                       /\ hist' = HistSet(hist, c.item.id[1], c.item.quantity[1])
                       /\ resp' = Response("INDEX", 0, HTTP_200_OK, "", {})
                  ELSE /\ db' = c.rows
                       /\ resp' = Response("INDEX", 0, HTTP_500_INTERNAL_SERVER_ERROR,
                                           c.error, {})
                       /\ UNCHANGED <<next_id, hist>>

\* A payload with the product_id of the sample and other values.
SampleProductData ==
  [product_id |-> 10101, quantity |-> 1, restock_level |-> 0, restock_amount |-> 0,
   condition |-> "USED"]

IndexBodies == ValidBodies \cup {MappingBody(SampleProductData)}

NextIndex ==
  \/ \E f \in BOOLEAN : index(f) /\ UNCHANGED outside
  \/ \E b \in IndexBodies : Post(b, FALSE) /\ UNCHANGED outside
  \/ \E i \in PathIds : Delete(i, FALSE) /\ UNCHANGED outside
  \/ \E i \in PathIds : GetItem(i) /\ UNCHANGED outside

SpecIndex == Init /\ [][NextIndex]_vars

(* C30: GET / answered 200 on an empty table leaves exactly one record,     *)
(* the sample (product_id 10101, quantity 10, restock_level 5,              *)
(* restock_amount 5, condition NEW), and on a table that holds a record     *)
(* leaves the table as it was; a POST with product_id 10101 that follows    *)
(* a GET / which left the table with the sample alone is answered 409 and   *)
(* inserts nothing.                                                         *)
C30_IndexSeedsEmptyStore ==
  [][/\ (resp'.op = "INDEX" /\ resp'.status = HTTP_200_OK) =>
          IF DOMAIN db = {}
            THEN /\ Cardinality(DOMAIN db') = 1
                 /\ \A i \in DOMAIN db' :
                      /\ db'[i].product_id = 10101 /\ db'[i].quantity = 10
                      /\ db'[i].restock_level = 5 /\ db'[i].restock_amount = 5
                      /\ db'[i].condition.name = "NEW"
            ELSE StoreUnchanged
     /\ (resp.op = "INDEX" /\ resp.status = HTTP_200_OK
           /\ Cardinality(DOMAIN db) = 1
           /\ (\A i \in DOMAIN db : db[i].product_id = 10101 /\ db[i].quantity = 10)
           /\ resp'.op = "POST") =>
          \A b \in IndexBodies :
            (b.data.product_id = 10101 /\ Post(b, FALSE)) =>
              resp'.status = HTTP_409_CONFLICT /\ StoreUnchanged]_vars

\* GET / on the empty table, then a POST of product_id 10101 answered 409:
\* the one record is the sample, under the first id.
C30_Witness ==
  /\ resp.op = "POST" /\ resp.status = HTTP_409_CONFLICT
  /\ next_id = 2
  /\ DOMAIN db = {1}
  /\ db[1].product_id = 10101 /\ db[1].quantity = 10
  /\ db[1].condition.name = "NEW"

====
